---------------------------- MODULE Spec2Model ----------------------------
(***************************************************************************)
(* A model of the privileged core of virtiofsd: the scoped credential and  *)
(* capability guards (passthrough/credentials.rs), file handles and the    *)
(* mount-anchor cache (passthrough/file_handle.rs), the restricted open    *)
(* (oslib.rs) and the PID file (util.rs).                                  *)
(***************************************************************************)
EXTENDS Integers, Sequences, FiniteSets, TLC

\* ---------------------------------------------------------------------
\* Bounds
\* ---------------------------------------------------------------------

\* Client ids are 0..MaxId; 0 is root.
MaxId == 2

Ids == 0..MaxId

Threads == {"t1", "t2"}

\* The threads that look anchors up concurrently.
Lookers == {"t1", "t2", "t3"}

\* The capabilities the guards are used with.
Caps == {"DAC_OVERRIDE", "FSETID"}

\* Names handed to drop_effective_cap; "BOGUS" is a name capng does not know.
CapNames == Caps \cup {"BOGUS"}

\* Mount ids the kernel reports for the exported tree.
MountIds == {21, 22}

\* Opaque handle bytes.
Handles == {"ha", "hb"}

\* Anchors (MountFd objects) are numbered 1..MaxAnchors as they are created.
MaxAnchors == 3

AnchorIds == 1..MaxAnchors

\* The thread's permitted set: only the effective uid/gid are ever changed,
\* so the permitted set is never cleared (credentials.rs:64-69).
Permitted == Caps

VARIABLES
    \* --- per-thread kernel state ---
    euid,       \* effective uid of each thread
    egid,       \* effective gid of each thread
    capEff,     \* effective capability set of each thread
    \* --- set_creds in progress / guards alive ---
    pc,         \* where each thread is inside set_creds ("idle" outside it)
    req,        \* the (uid, gid) of the thread's current or last set_creds call
    credBefore, \* the thread's effective (uid, gid) when the call in progress was made
    holdU,      \* a ScopedUid exists on the thread
    holdG,      \* a ScopedGid exists on the thread
    res,        \* creds_guard of the current or last call: "none", "ok", "err"
    trace,      \* credential syscalls issued by the current or last call
    log,        \* messages logged by the thread since its last set_creds call
    \* --- ScopedCaps ---
    capGuard,   \* the capability of the thread's ScopedCaps, or "none"
    capReq,     \* the name given to the thread's last drop_effective_cap
    capRes,     \* result of the last drop_effective_cap: "none", "some", "nil", "err"
    capBefore,  \* effective set when the last drop_effective_cap was called
    capMoved,   \* the effective set was changed by a credential switch since then
    panicked,   \* the thread panicked (ScopedCaps::drop) and is unwinding
    aborted,    \* the panic aborted the whole process
    \* --- file handles ---
    nthOut,     \* what name_to_handle_at returned to the thread's last from_name_at
    fhRes,      \* the result of the thread's last from_name_at / from_fd
    \* --- mount-anchor cache (MountFds) ---
    cache,      \* mount id -> the anchor the cache refers to (0: no entry)
    creatingBy, \* mount id -> the thread creating its anchor, or "nobody"
    nAnchors,   \* anchors created so far
    anchorMnt,  \* anchor -> the mount id it was created for (0: not created)
    refs,       \* anchor -> strong references (Arc<MountFd>) alive
    closed,     \* anchors whose descriptor has been closed
    lpc,        \* where each thread is inside to_openable
    want,       \* the FileHandle of the thread's to_openable in progress
    openable,   \* the thread's OpenableFileHandle, or NoHandle
    toRes,      \* result of the thread's last to_openable: "none", "ok", "err"
    lastOpen,   \* result of the thread's last OpenableFileHandle::open
    \* --- do_open_relative_to ---
    opc,        \* "idle", or "done" once the call has returned
    oArgs,      \* the arguments of the call
    oHow,       \* the open_how handed to openat2
    oRes,       \* the Result the call returned
    fdNode,     \* the file the returned descriptor refers to
    \* --- PID file ---
    ppc,        \* where each process is inside write_pid_file
    pfile,      \* the inode of the File each process has open (0: none)
    flocks,     \* inode -> the process whose open file holds its flock
    pathIno,    \* the inode the path names (0: nothing)
    nInodes,    \* inodes created so far
    content,    \* inode -> the file's bytes
    pres,       \* result of each process's last write_pid_file
    \* --- sfork, wait_for_child ---
    parentAlive,\* the process that called sfork has not ended
    spc,        \* where that process is: in sfork, returned, in waitpid, exited
    sres,       \* what sfork returned to it: "none", "child_pid", "err"
    pidfd,      \* the process parent_pidfd refers to (-1: not opened)
    cpc,        \* where the child is: "none" before the fork, then inside sfork, ...
    cres,       \* what sfork returned in the child
    pdeathsig,  \* the child has registered its parent-death signal
    sigSent,    \* the parent-death signal has been sent to the child
    childEnd,   \* how the child ended
    wlog,       \* messages the parent logged
    exited,     \* the parent's process::exit in wait_for_child and its code
    \* --- mount, umount2 ---
    mout,       \* outcome of the call: "none", "ok", "err", "panic"
    margs,      \* the strings the call was given
    msys,       \* the syscalls the call issued
    \* --- umask, ScopedUmask ---
    procUmask,  \* the process's file mode creation mask (one for all threads)
    umaskGuards,\* each thread's live ScopedUmask values, the newest last
    umaskAtStart\* the mask before any ScopedUmask was created

credVars == <<euid, egid, capEff, pc, req, credBefore, holdU, holdG, res, trace, log,
              capGuard, capReq, capRes, capBefore, capMoved, panicked, aborted>>

handleVars == <<nthOut, fhRes>>

anchorVars == <<cache, creatingBy, nAnchors, anchorMnt, refs, closed, lpc, want,
                openable, toRes, lastOpen>>

openVars == <<opc, oArgs, oHow, oRes, fdNode>>

pidVars == <<ppc, pfile, flocks, pathIno, nInodes, content, pres>>

forkVars == <<parentAlive, spc, sres, pidfd, cpc, cres, pdeathsig, sigSent, childEnd,
              wlog, exited>>

mountVars == <<mout, margs, msys>>

umaskVars == <<procUmask, umaskGuards, umaskAtStart>>

vars == <<credVars, handleVars, anchorVars, openVars, pidVars, forkVars, mountVars,
          umaskVars>>

\* ---------------------------------------------------------------------
\* Kernel: raw setresuid / setresgid of one thread
\* ---------------------------------------------------------------------

\* The kernel's capability fixup when the effective uid changes
\* (credentials.rs:64-69): leaving euid 0 clears the effective set,
\* returning to euid 0 copies the permitted set into it.
FixupCaps(old, new, eff) ==
    IF old = 0 /\ new # 0 THEN {}
    ELSE IF old # 0 /\ new = 0 THEN Permitted
    ELSE eff

\* libc's setresuid()/setresgid(): every thread of the process follows.
SyscallSetresProcessWide(t, nr, val) ==
    /\ euid' = IF nr = "setresuid" THEN [u \in Threads |-> val] ELSE euid
    /\ egid' = IF nr = "setresgid" THEN [u \in Threads |-> val] ELSE egid
    /\ capEff' = IF nr = "setresuid"
                 THEN [u \in Threads |-> FixupCaps(euid[u], val, capEff[u])]
                 ELSE capEff

\* libc::syscall(nr, -1, val, -1) succeeding: only the calling thread's
\* effective id changes.
SyscallSetres(t, nr, val) ==
    /\ euid' = IF nr = "setresuid" THEN [euid EXCEPT ![t] = val] ELSE euid
    /\ egid' = IF nr = "setresgid" THEN [egid EXCEPT ![t] = val] ELSE egid
    /\ capEff' = IF nr = "setresuid"
                 THEN [capEff EXCEPT ![t] = FixupCaps(euid[t], val, @)]
                 ELSE capEff

\* The same syscall failing: nothing changes.
SyscallFails == UNCHANGED <<euid, egid, capEff>>

\* A thread starts operations while it has not panicked and the process
\* is alive.
Running(t) == ~panicked[t] /\ ~aborted

Call(nr, val, ok) == [nr |-> nr, val |-> val, ok |-> ok]

\* Every credential switch moves the effective set a live ScopedCaps was
\* created against.
NoteMoved(t) == capMoved' = [capMoved EXCEPT ![t] = TRUE]

\* ---------------------------------------------------------------------
\* scoped_cred!  (ScopedUid, ScopedGid)
\* ---------------------------------------------------------------------

\* A drop that resets the uid whichever guard it belongs to (the macro
\* instantiated with the wrong $syscall_nr).
scoped_cred_drop_WrongNr(t, nr, ok) ==
    /\ IF ok THEN SyscallSetres(t, "setresuid", 0) ELSE SyscallFails
    /\ log' = IF ok THEN log
              ELSE [log EXCEPT ![t] = @ \cup {<<"failed to change credentials back to root", nr>>}]

\* $name::drop: reset the id to 0; a failure is only logged.
scoped_cred_drop(t, nr, ok) ==
    /\ IF ok THEN SyscallSetres(t, nr, 0) ELSE SyscallFails
    /\ log' = IF ok THEN log
              ELSE [log EXCEPT ![t] = @ \cup {<<"failed to change credentials back to root", nr>>}]

\* ---------------------------------------------------------------------
\* set_creds(uid, gid)
\* ---------------------------------------------------------------------

\* set_creds that goes straight to the user switch.
set_creds_UserFirst(t, uid, gid) ==
    /\ pc[t] = "idle" /\ Running(t)
    /\ ~holdU[t] /\ ~holdG[t]
    /\ pc' = [pc EXCEPT ![t] = "uid_new"]
    /\ req' = [req EXCEPT ![t] = [uid |-> uid, gid |-> gid]]
    /\ credBefore' = [credBefore EXCEPT ![t] = [uid |-> euid[t], gid |-> egid[t]]]
    /\ res' = [res EXCEPT ![t] = "none"]
    /\ trace' = [trace EXCEPT ![t] = <<>>]
    /\ log' = [log EXCEPT ![t] = {}]
    /\ UNCHANGED <<euid, egid, capEff, holdU, holdG,
                   capGuard, capReq, capRes, capBefore, capMoved, panicked, aborted>>

set_creds(t, uid, gid) ==
    /\ pc[t] = "idle" /\ Running(t)
    /\ ~holdU[t] /\ ~holdG[t]
    /\ pc' = [pc EXCEPT ![t] = "gid_new"]
    /\ req' = [req EXCEPT ![t] = [uid |-> uid, gid |-> gid]]
    /\ credBefore' = [credBefore EXCEPT ![t] = [uid |-> euid[t], gid |-> egid[t]]]
    /\ res' = [res EXCEPT ![t] = "none"]
    /\ trace' = [trace EXCEPT ![t] = <<>>]
    /\ log' = [log EXCEPT ![t] = {}]
    /\ UNCHANGED <<euid, egid, capEff, holdU, holdG,
                   capGuard, capReq, capRes, capBefore, capMoved, panicked, aborted>>

\* ScopedGid::new(gid): the first thing set_creds does.
ScopedGid_new(t) ==
    /\ pc[t] = "gid_new" /\ ~aborted
    /\ IF req[t].gid = 0
       THEN /\ pc' = [pc EXCEPT ![t] = "uid_new"]
            /\ UNCHANGED <<euid, egid, capEff, holdG, res, trace, capMoved>>
       ELSE \E ok \in BOOLEAN :
            /\ trace' = [trace EXCEPT ![t] = Append(@, Call("setresgid", req[t].gid, ok))]
            /\ IF ok
               THEN /\ SyscallSetres(t, "setresgid", req[t].gid)
                    /\ holdG' = [holdG EXCEPT ![t] = TRUE]
                    /\ pc' = [pc EXCEPT ![t] = "uid_new"]
                    /\ NoteMoved(t)
                    /\ UNCHANGED res
               ELSE \* and_then: the closure (ScopedUid::new) is not run
                    /\ SyscallFails
                    /\ res' = [res EXCEPT ![t] = "err"]
                    /\ pc' = [pc EXCEPT ![t] = "add_cap"]
                    /\ UNCHANGED <<holdG, capMoved>>
    /\ UNCHANGED <<req, credBefore, holdU, log, capGuard, capReq, capRes, capBefore, panicked, aborted>>

\* A ScopedUid::new without the `val == 0` early return.
ScopedUid_new_NoZeroCheck(t) ==
    /\ pc[t] = "uid_new" /\ ~aborted
    /\ \E ok \in BOOLEAN :
        /\ trace' = [trace EXCEPT ![t] = Append(@, Call("setresuid", req[t].uid, ok))]
        /\ IF ok
           THEN /\ SyscallSetres(t, "setresuid", req[t].uid)
                /\ holdU' = [holdU EXCEPT ![t] = TRUE]
                /\ res' = [res EXCEPT ![t] = "ok"]
                /\ pc' = [pc EXCEPT ![t] = "add_cap"]
                /\ NoteMoved(t)
           ELSE /\ SyscallFails
                /\ res' = [res EXCEPT ![t] = "err"]
                /\ pc' = [pc EXCEPT ![t] = IF holdG[t] THEN "gid_unwind" ELSE "add_cap"]
                /\ UNCHANGED <<holdU, capMoved>>
    /\ UNCHANGED <<req, credBefore, holdG, log, capGuard, capReq, capRes, capBefore, panicked, aborted>>

\* ScopedUid::new(uid), inside the and_then closure.
ScopedUid_new(t) ==
    /\ pc[t] = "uid_new" /\ ~aborted
    /\ IF req[t].uid = 0
       THEN /\ res' = [res EXCEPT ![t] = "ok"]
            /\ pc' = [pc EXCEPT ![t] = "add_cap"]
            /\ UNCHANGED <<euid, egid, capEff, holdU, trace, capMoved>>
       ELSE \E ok \in BOOLEAN :
            /\ trace' = [trace EXCEPT ![t] = Append(@, Call("setresuid", req[t].uid, ok))]
            /\ IF ok
               THEN /\ SyscallSetres(t, "setresuid", req[t].uid)
                    /\ holdU' = [holdU EXCEPT ![t] = TRUE]
                    /\ res' = [res EXCEPT ![t] = "ok"]
                    /\ pc' = [pc EXCEPT ![t] = "add_cap"]
                    /\ NoteMoved(t)
               ELSE \* `?` leaves the closure; its `gid` guard is dropped
                    /\ SyscallFails
                    /\ res' = [res EXCEPT ![t] = "err"]
                    /\ pc' = [pc EXCEPT ![t] = IF holdG[t] THEN "gid_unwind" ELSE "add_cap"]
                    /\ UNCHANGED <<holdU, capMoved>>
    /\ UNCHANGED <<req, credBefore, holdG, log, capGuard, capReq, capRes, capBefore, panicked, aborted>>

\* The ScopedGid forgotten, not dropped, when ScopedUid::new failed.
ScopedGid_unwind_Forgets(t) ==
    /\ pc[t] = "gid_unwind" /\ ~aborted
    /\ holdG' = [holdG EXCEPT ![t] = FALSE]
    /\ pc' = [pc EXCEPT ![t] = "add_cap"]
    /\ UNCHANGED <<euid, egid, capEff, log, trace, capMoved>>
    /\ UNCHANGED <<req, credBefore, holdU, res, capGuard, capReq, capRes, capBefore, panicked, aborted>>

\* The ScopedGid dropped when ScopedUid::new failed.
ScopedGid_unwind(t) ==
    /\ pc[t] = "gid_unwind" /\ ~aborted
    /\ \E ok \in BOOLEAN :
        /\ scoped_cred_drop(t, "setresgid", ok)
        /\ trace' = [trace EXCEPT ![t] = Append(@, Call("setresgid", 0, ok))]
    /\ holdG' = [holdG EXCEPT ![t] = FALSE]
    /\ pc' = [pc EXCEPT ![t] = "add_cap"]
    /\ NoteMoved(t)
    /\ UNCHANGED <<req, credBefore, holdU, res, capGuard, capReq, capRes, capBefore, panicked, aborted>>

\* crate::util::add_cap_to_eff(name): add the capability to the thread's
\* effective set; Err when capng refuses.
add_cap_to_eff(t, name, ok) ==
    capEff' = IF ok THEN [capEff EXCEPT ![t] = @ \cup {name}] ELSE capEff

\* A set_creds that returns creds_guard without adding DAC_OVERRIDE.
set_creds_return_NoAddCap(t) ==
    /\ pc[t] = "add_cap" /\ ~aborted
    /\ pc' = [pc EXCEPT ![t] = "idle"]
    /\ credBefore' = [credBefore EXCEPT ![t] = [uid |-> 0, gid |-> 0]]
    /\ UNCHANGED <<euid, egid, capEff, log, req, holdU, holdG, res, trace,
                   capGuard, capReq, capRes, capBefore, capMoved, panicked, aborted>>

\* The rest of set_creds: add DAC_OVERRIDE (a failure is only a warning)
\* and return creds_guard.
set_creds_return(t) ==
    /\ pc[t] = "add_cap" /\ ~aborted
    /\ \E ok \in BOOLEAN :
        /\ add_cap_to_eff(t, "DAC_OVERRIDE", ok)
        /\ log' = IF ok THEN log
                  ELSE [log EXCEPT ![t] = @ \cup {<<"failed to add 'DAC_OVERRIDE'", "capng">>}]
    /\ pc' = [pc EXCEPT ![t] = "idle"]
    /\ credBefore' = [credBefore EXCEPT ![t] = [uid |-> 0, gid |-> 0]]
    /\ NoteMoved(t)
    /\ UNCHANGED <<euid, egid, req, holdU, holdG, res, trace,
                   capGuard, capReq, capRes, capBefore, panicked, aborted>>

\* The caller releases the ScopedUid.
ScopedUid_drop(t) ==
    /\ pc[t] = "idle" /\ holdU[t] /\ ~aborted
    /\ \E ok \in BOOLEAN : scoped_cred_drop(t, "setresuid", ok)
    /\ holdU' = [holdU EXCEPT ![t] = FALSE]
    /\ NoteMoved(t)
    /\ UNCHANGED <<pc, req, credBefore, holdG, res, trace, capGuard, capReq, capRes, capBefore, panicked, aborted>>

\* The caller releases the ScopedGid.
ScopedGid_drop(t) ==
    /\ pc[t] = "idle" /\ holdG[t] /\ ~aborted
    /\ \E ok \in BOOLEAN : scoped_cred_drop(t, "setresgid", ok)
    /\ holdG' = [holdG EXCEPT ![t] = FALSE]
    /\ NoteMoved(t)
    /\ UNCHANGED <<pc, req, credBefore, holdU, res, trace, capGuard, capReq, capRes, capBefore, panicked, aborted>>

\* ---------------------------------------------------------------------
\* ScopedCaps, drop_effective_cap
\* ---------------------------------------------------------------------

\* capng::name_to_capability
name_to_capability(name) == IF name \in Caps THEN name ELSE "unknown"

\* capng::have_capability(Type::EFFECTIVE, cap)
have_capability(t, cap) == cap \in capEff[t]

\* ScopedCaps::new(cap_name).  `step` is how far capng gets: "ok", or the
\* call that fails ("update", "apply").
ScopedCaps_new(t, cap_name, step) ==
    LET cap == name_to_capability(cap_name) IN
    IF cap = "unknown"
    THEN \* `?` on name_to_capability
         /\ capRes' = [capRes EXCEPT ![t] = "err"]
         /\ UNCHANGED <<capEff, capGuard>>
    ELSE IF have_capability(t, cap)
    THEN IF step = "ok"
         THEN /\ capEff' = [capEff EXCEPT ![t] = @ \ {cap}]
              /\ capGuard' = [capGuard EXCEPT ![t] = cap]
              /\ capRes' = [capRes EXCEPT ![t] = "some"]
         ELSE \* capng::update or capng::apply failed: einval()
              /\ capRes' = [capRes EXCEPT ![t] = "err"]
              /\ UNCHANGED <<capEff, capGuard>>
    ELSE /\ capRes' = [capRes EXCEPT ![t] = "nil"]
         /\ UNCHANGED <<capEff, capGuard>>

\* drop_effective_cap(cap_name), called between credential operations.
drop_effective_cap(t, cap_name) ==
    /\ pc[t] = "idle" /\ Running(t)
    /\ capGuard[t] = "none"
    /\ capReq' = [capReq EXCEPT ![t] = cap_name]
    /\ \E step \in {"ok", "update", "apply"} : ScopedCaps_new(t, cap_name, step)
    /\ capBefore' = [capBefore EXCEPT ![t] = capEff[t]]
    /\ capMoved' = [capMoved EXCEPT ![t] = FALSE]
    /\ UNCHANGED <<euid, egid, pc, req, credBefore, holdU, holdG, res, trace, log, panicked, aborted>>

\* What panic! does depends on the build's panic strategy: it unwinds the
\* panicking thread ("unwind") or aborts the process ("abort").
PanicStrategies == {"unwind", "abort"}

Panic(t, strategy) ==
    /\ panicked' = [panicked EXCEPT ![t] = TRUE]
    /\ aborted' = (strategy = "abort")

\* A ScopedCaps::drop that only logs a failed restore, as scoped_cred does.
ScopedCaps_drop_LogOnly(t) ==
    /\ pc[t] = "idle" /\ Running(t)
    /\ capGuard[t] # "none"
    /\ \E step \in {"ok", "update", "apply"} :
        capEff' = IF step = "ok" THEN [capEff EXCEPT ![t] = @ \cup {capGuard[t]}] ELSE capEff
    /\ capGuard' = [capGuard EXCEPT ![t] = "none"]
    /\ UNCHANGED <<euid, egid, pc, req, credBefore, holdU, holdG, res, trace, log,
                   capReq, capRes, capBefore, capMoved, panicked, aborted>>

\* A ScopedCaps::drop that requests Action::DROP again instead of ADD.
ScopedCaps_drop_DropsAgain(t) ==
    /\ pc[t] = "idle" /\ Running(t)
    /\ capGuard[t] # "none"
    /\ \E step \in {"ok", "update", "apply"} :
        IF step = "ok"
        THEN /\ capEff' = [capEff EXCEPT ![t] = @ \ {capGuard[t]}]
             /\ UNCHANGED <<panicked, aborted>>
        ELSE /\ \E strategy \in PanicStrategies : Panic(t, strategy)
             /\ UNCHANGED capEff
    /\ capGuard' = [capGuard EXCEPT ![t] = "none"]
    /\ UNCHANGED <<euid, egid, pc, req, credBefore, holdU, holdG, res, trace, log,
                   capReq, capRes, capBefore, capMoved>>

\* ScopedCaps::drop: re-add the capability; a failure of capng::update or
\* capng::apply is a panic!.
ScopedCaps_drop(t) ==
    /\ pc[t] = "idle" /\ Running(t)
    /\ capGuard[t] # "none"
    /\ \E step \in {"ok", "update", "apply"} :
        IF step = "ok"
        THEN /\ capEff' = [capEff EXCEPT ![t] = @ \cup {capGuard[t]}]
             /\ UNCHANGED <<panicked, aborted>>
        ELSE /\ \E strategy \in PanicStrategies : Panic(t, strategy)
             /\ UNCHANGED capEff
    /\ capGuard' = [capGuard EXCEPT ![t] = "none"]
    /\ UNCHANGED <<euid, egid, pc, req, credBefore, holdU, holdG, res, trace, log,
                   capReq, capRes, capBefore, capMoved>>

\* ---------------------------------------------------------------------
\* FileHandle::from_name_at, from_fd
\* ---------------------------------------------------------------------

EOPNOTSUPP == 95

EOVERFLOW == 75

\* errno values name_to_handle_at can fail with: ENOENT, EBADF, ENOMEM,
\* ENOTDIR, EOVERFLOW, EOPNOTSUPP.
Errnos == {2, 9, 12, 20, EOVERFLOW, EOPNOTSUPP}

\* What oslib::name_to_handle_at can return: the handle and mount id written
\* through the out-parameters, or an io::Error carrying errno.
NthOutcomes ==
    [ok : {TRUE}, mount_id : MountIds, handle : Handles, errno : {0}]
        \cup [ok : {FALSE}, mount_id : {0}, handle : {"none"}, errno : Errnos]

\* `mount_id as MountId`: the widening of the non-negative c_int the kernel
\* reports keeps its value.
AsMountId(mount_id) == mount_id

FhNone == [kind |-> "none", mnt_id |-> 0, handle |-> "none", errno |-> 0]

\* A from_name_at that takes every failure of name_to_handle_at for
\* "no handle possible".
from_name_at_AnyErrorIsNone(out) ==
    IF ~out.ok
    THEN [kind |-> "nil", mnt_id |-> 0, handle |-> "none", errno |-> 0]
    ELSE [kind |-> "some", mnt_id |-> AsMountId(out.mount_id), handle |-> out.handle,
          errno |-> 0]

\* FileHandle::from_name_at(dir, path), given what name_to_handle_at returned:
\* Ok(Some(FileHandle)), Ok(None) or Err(err).
from_name_at(out) ==
    IF ~out.ok
    THEN IF out.errno = EOPNOTSUPP
         THEN [kind |-> "nil", mnt_id |-> 0, handle |-> "none", errno |-> 0]
         ELSE IF out.errno = EOVERFLOW
         THEN [kind |-> "nil", mnt_id |-> 0, handle |-> "none", errno |-> 0]
         ELSE [kind |-> "err", mnt_id |-> 0, handle |-> "none", errno |-> out.errno]
    ELSE [kind |-> "some", mnt_id |-> AsMountId(out.mount_id), handle |-> out.handle,
          errno |-> 0]

\* FileHandle::from_fd(fd): from_name_at(fd, "").
from_fd(out) == from_name_at(out)

\* A thread derives a handle from a path.
FromNameAt(t) ==
    \E out \in NthOutcomes :
        /\ nthOut' = [nthOut EXCEPT ![t] = [via |-> "from_name_at", out |-> out]]
        /\ fhRes' = [fhRes EXCEPT ![t] = from_name_at(out)]

\* A thread derives a handle from a descriptor.
FromFd(t) ==
    \E out \in NthOutcomes :
        /\ nthOut' = [nthOut EXCEPT ![t] = [via |-> "from_fd", out |-> out]]
        /\ fhRes' = [fhRes EXCEPT ![t] = from_fd(out)]

\* ---------------------------------------------------------------------
\* FileHandle::to_openable, OpenableFileHandle, the mount-anchor cache
\* ---------------------------------------------------------------------

FileHandles == [mnt_id : MountIds, handle : {"ha"}]

NoHandle == [mnt_id |-> 0, handle |-> "none", mount_fd |-> 0]

\* The cache refers to an anchor for the mount and that anchor is alive.
CacheLive(m) == cache[m] # 0 /\ refs[cache[m]] > 0

\* The strong reference count after a reference is released; the anchor
\* (MountFd) is dropped, and its descriptor closed, when it reaches zero.
Release(r, a) == [r EXCEPT ![a] = IF @ > 0 THEN @ - 1 ELSE 0]

ClosedAfter(r, a) == IF r[a] = 0 THEN closed \cup {a} ELSE closed

\* An OpenableFileHandle that keeps only the anchor's descriptor number and
\* lets the Arc go.
OpenableFileHandle_new_RawFd(t, fh, a, r) ==
    /\ openable' = [openable EXCEPT ![t] =
                       [mnt_id |-> fh.mnt_id, handle |-> fh.handle, mount_fd |-> a]]
    /\ refs' = Release(r, a)
    /\ closed' = ClosedAfter(Release(r, a), a)

\* OpenableFileHandle { handle: self.clone(), mount_fd }: the handle owns the
\* strong reference `a` that MountFds::get returned (`r`: the counts with
\* that reference taken).
OpenableFileHandle_new(t, fh, a, r) ==
    /\ openable' = [openable EXCEPT ![t] =
                       [mnt_id |-> fh.mnt_id, handle |-> fh.handle, mount_fd |-> a]]
    /\ refs' = r
    /\ closed' = closed

\* MountFds::get, the miss: the first thread to miss wins the right to
\* create the anchor; the others wait.
MountFds_get_miss(t, fh) ==
    /\ creatingBy[fh.mnt_id] = "nobody"
    /\ creatingBy' = [creatingBy EXCEPT ![fh.mnt_id] = t]
    /\ lpc' = [lpc EXCEPT ![t] = "creating"]
    /\ want' = [want EXCEPT ![t] = fh]
    /\ UNCHANGED <<cache, nAnchors, anchorMnt, refs, closed, openable, toRes, lastOpen>>

\* A to_openable that opens an anchor of its own without asking the cache.
to_openable_NoCache(t, fh) ==
    /\ lpc[t] = "idle" /\ openable[t] = NoHandle
    /\ lpc' = [lpc EXCEPT ![t] = "creating"]
    /\ want' = [want EXCEPT ![t] = fh]
    /\ UNCHANGED <<cache, creatingBy, nAnchors, anchorMnt, refs, closed, openable,
                   toRes, lastOpen>>

\* FileHandle::to_openable(mount_fds, reopen_fd): mount_fds.get(self.mnt_id,
\* reopen_fd).  A live anchor in the cache is shared (one more strong
\* reference); otherwise the anchor has to be created.
to_openable(t, fh) ==
    /\ lpc[t] = "idle" /\ openable[t] = NoHandle
    /\ IF CacheLive(fh.mnt_id)
       THEN /\ OpenableFileHandle_new(t, fh, cache[fh.mnt_id],
                                      [refs EXCEPT ![cache[fh.mnt_id]] = @ + 1])
            /\ toRes' = [toRes EXCEPT ![t] = "ok"]
            /\ UNCHANGED <<cache, creatingBy, nAnchors, anchorMnt, lpc, want, lastOpen>>
       ELSE MountFds_get_miss(t, fh)

\* MountFds::get, the creation: the winner runs reopen_fd; on success the
\* new anchor is inserted for the mount id and to_openable returns the
\* handle, on failure the error is returned (`?`) and the cache is as before.
MountFds_get_create(t) ==
    /\ lpc[t] = "creating"
    /\ LET m == want[t].mnt_id
           a == nAnchors + 1
       IN \E ok \in BOOLEAN :
            IF ok
            THEN /\ nAnchors < MaxAnchors
                 /\ nAnchors' = a
                 /\ anchorMnt' = [anchorMnt EXCEPT ![a] = m]
                 /\ cache' = [cache EXCEPT ![m] = a]
                 /\ OpenableFileHandle_new(t, want[t], a, [refs EXCEPT ![a] = 1])
                 /\ toRes' = [toRes EXCEPT ![t] = "ok"]
            ELSE /\ toRes' = [toRes EXCEPT ![t] = "err"]
                 /\ UNCHANGED <<nAnchors, anchorMnt, cache, openable, refs, closed>>
    /\ creatingBy' = [m \in MountIds |-> IF creatingBy[m] = t THEN "nobody" ELSE creatingBy[m]]
    /\ lpc' = [lpc EXCEPT ![t] = "idle"]
    /\ UNCHANGED <<want, lastOpen>>

\* OpenableFileHandle::open(flags): open_by_handle_at on the anchor's
\* descriptor; on a closed descriptor it can only fail (EBADF).
OpenableFileHandle_open(t) ==
    /\ lpc[t] = "idle" /\ openable[t] # NoHandle
    /\ \E ok \in BOOLEAN :
        lastOpen' = [lastOpen EXCEPT ![t] =
                        IF openable[t].mount_fd \in closed THEN "ebadf"
                        ELSE IF ok THEN "ok" ELSE "err"]
    /\ UNCHANGED <<cache, creatingBy, nAnchors, anchorMnt, refs, closed, lpc, want,
                   openable, toRes>>

\* The OpenableFileHandle goes out of scope: its Arc<MountFd> is released.
OpenableFileHandle_drop(t) ==
    /\ lpc[t] = "idle" /\ openable[t] # NoHandle
    /\ refs' = Release(refs, openable[t].mount_fd)
    /\ closed' = ClosedAfter(Release(refs, openable[t].mount_fd), openable[t].mount_fd)
    /\ openable' = [openable EXCEPT ![t] = NoHandle]
    /\ lastOpen' = [lastOpen EXCEPT ![t] = "none"]
    /\ UNCHANGED <<cache, creatingBy, nAnchors, anchorMnt, lpc, want, toRes>>

InitHandles ==
    /\ nthOut = [t \in Threads |-> [via |-> "none", out |-> [ok |-> FALSE, mount_id |-> 0,
                                                              handle |-> "none", errno |-> 0]]]
    /\ fhRes = [t \in Threads |-> FhNone]

InitAnchors ==
    /\ cache = [m \in MountIds |-> 0]
    /\ creatingBy = [m \in MountIds |-> "nobody"]
    /\ nAnchors = 0
    /\ anchorMnt = [a \in AnchorIds |-> 0]
    /\ refs = [a \in AnchorIds |-> 0]
    /\ closed = {}
    /\ lpc = [t \in Lookers |-> "idle"]
    /\ want = [t \in Lookers |-> [mnt_id |-> 0, handle |-> "none"]]
    /\ openable = [t \in Lookers |-> NoHandle]
    /\ toRes = [t \in Lookers |-> "none"]
    /\ lastOpen = [t \in Lookers |-> "none"]

\* ---------------------------------------------------------------------
\* oslib.rs: the restricted open, do_open_relative_to
\* ---------------------------------------------------------------------

\* The host's file tree.  Node 1 is the exported directory the caller passes
\* as dir; node 0 is the host's root.
\*     /            0 dir
\*     /f           2 file    (a host file outside the export)
\*     /export      1 dir     (the base)
\*     /export/f    4 file
\*     /export/up   5 symlink -> ../f
\*     /export/a    3 dir
\*     /export/a/m  6 magic link (proc-style) -> the host's root
HostRoot == 0

BaseDir == 1

Nodes == 0..6

NoNode == -1

NodeParent == [n \in Nodes |-> CASE n = 0 -> 0
                                 [] n = 1 -> 0
                                 [] n = 2 -> 0
                                 [] n = 3 -> 1
                                 [] n = 4 -> 1
                                 [] n = 5 -> 1
                                 [] n = 6 -> 3]

NodeName == [n \in Nodes |-> CASE n = 0 -> "/"
                               [] n = 1 -> "export"
                               [] n = 2 -> "f"
                               [] n = 3 -> "a"
                               [] n = 4 -> "f"
                               [] n = 5 -> "up"
                               [] n = 6 -> "m"]

NodeKind == [n \in Nodes |-> CASE n \in {0, 1, 3} -> "dir"
                               [] n \in {2, 4} -> "file"
                               [] n = 5 -> "symlink"
                               [] n = 6 -> "magic"]

\* The text of the symbolic link, as path components.
LinkTarget == [abs |-> FALSE, comps |-> <<"..", "f">>]

\* Where the magic link jumps to.
MagicTarget == HostRoot

\* The components a client-supplied pathname is made of.
Components == {"..", "a", "f", "up", "m"}

\* Pathnames have at most MaxPathLen components.
MaxPathLen == 3

\* The kernel follows at most MaxSymlinks symbolic links in one resolution.
MaxSymlinks == 2

RECURSIVE SeqsUpTo(_)
SeqsUpTo(n) ==
    IF n = 0 THEN {<<>>}
    ELSE LET shorter == SeqsUpTo(n - 1)
         IN shorter \cup {Append(s, c) : s \in {x \in shorter : Len(x) = n - 1},
                                         c \in Components}

\* A pathname: absolute ("/...") or relative, then its components.
Pathnames == [abs : BOOLEAN, comps : SeqsUpTo(MaxPathLen)]

\* The open flags callers pass.  Files are not created (no O_CREAT), so the
\* tree is the same for every call.
OpenFlags == SUBSET {"O_NOFOLLOW", "O_CLOEXEC"}

\* The mode argument: None, or Some(bits); 420 = 0o644, 32768 = 0o100000.
ModeArgs == {[some |-> FALSE, val |-> 0],
             [some |-> TRUE, val |-> 420],
             [some |-> TRUE, val |-> 32768]}

Child(dir, name) ==
    LET found == {n \in Nodes \ {HostRoot} : NodeParent[n] = dir /\ NodeName[n] = name}
    IN IF found = {} THEN NoNode ELSE CHOOSE n \in found : TRUE

\* The nodes of the subtree of the base directory.
RECURSIVE Under(_, _)
Under(n, dir) ==
    IF n = dir THEN TRUE
    ELSE IF n = HostRoot THEN FALSE
    ELSE Under(NodeParent[n], dir)

InBase(n) == n \in Nodes /\ Under(n, BaseDir)

SysErr(e) == [ret |-> -1, errno |-> e, node |-> NoNode]

\* The descriptor number the kernel hands out.
SysFd(n) == [ret |-> 3, errno |-> "none", node |-> n]

\* openat2(2)'s path walk.  root is where "/" and ".." stop: the directory
\* of dirfd under RESOLVE_IN_ROOT (as after chroot(2): ".." at the root
\* stays at the root, it is not an error), the host's root otherwise.  A
\* magic link is refused with ELOOP under RESOLVE_NO_MAGICLINKS and with
\* EXDEV under RESOLVE_IN_ROOT alone.  O_NOFOLLOW refuses a link as the last
\* component.
RECURSIVE Walk(_, _, _, _, _, _)
Walk(resolve, root, cur, comps, nofollow, hops) ==
    IF comps = <<>> THEN SysFd(cur)
    ELSE IF NodeKind[cur] # "dir" THEN SysErr("ENOTDIR")
    ELSE
        LET c == Head(comps)
            rest == Tail(comps)
            nxt == Child(cur, c)
        IN IF c = ".."
           THEN Walk(resolve, root, IF cur = root THEN root ELSE NodeParent[cur],
                     rest, nofollow, hops)
           ELSE IF nxt = NoNode THEN SysErr("ENOENT")
           ELSE IF NodeKind[nxt] \in {"symlink", "magic"} /\ rest = <<>> /\ nofollow
                THEN SysErr("ELOOP")
           ELSE IF NodeKind[nxt] = "magic"
                THEN IF "RESOLVE_NO_MAGICLINKS" \in resolve THEN SysErr("ELOOP")
                     ELSE IF "RESOLVE_IN_ROOT" \in resolve THEN SysErr("EXDEV")
                     ELSE Walk(resolve, root, MagicTarget, rest, nofollow, hops)
           ELSE IF NodeKind[nxt] = "symlink"
                THEN IF hops = 0 THEN SysErr("ELOOP")
                     ELSE Walk(resolve, root, IF LinkTarget.abs THEN root ELSE cur,
                               LinkTarget.comps \o rest, nofollow, hops - 1)
           ELSE Walk(resolve, root, nxt, rest, nofollow, hops)

\* The openat2(2) system call on a kernel that has it (has) or not.  It
\* rejects mode bits outside 07777 and a mode without O_CREAT.
SYS_openat2(has, dir, pathname, how) ==
    IF ~has THEN SysErr("ENOSYS")
    ELSE IF how.mode >= 4096 THEN SysErr("EINVAL")
    ELSE IF how.mode # 0 /\ "O_CREAT" \notin how.flags THEN SysErr("EINVAL")
    ELSE IF ~pathname.abs /\ pathname.comps = <<>> THEN SysErr("ENOENT")
    ELSE LET root == IF "RESOLVE_IN_ROOT" \in how.resolve THEN dir ELSE HostRoot
         IN Walk(how.resolve, root, IF pathname.abs THEN root ELSE dir,
                 pathname.comps, "O_NOFOLLOW" \in how.flags, MaxSymlinks)

\* check_retval: -1 becomes Err(errno), anything else Ok(value).
check_retval(r) ==
    IF r.ret = -1 THEN [kind |-> "err", errno |-> r.errno, fd |-> -1]
    ELSE [kind |-> "ok", errno |-> "none", fd |-> r.ret]

\* do_open_relative_to resolving from the directory without confining the
\* resolution to it.
do_open_relative_to_Unconfined(has, dir, pathname, flags, mode) ==
    LET m == (IF mode.some THEN mode.val ELSE 0) % 4096
        how == [resolve |-> {"RESOLVE_NO_MAGICLINKS"},
                flags |-> flags,
                mode |-> m]
        r == SYS_openat2(has, dir, pathname, how)
    IN /\ opc = "idle"
       /\ opc' = "done"
       /\ oArgs' = [pathname |-> pathname, flags |-> flags, mode |-> mode]
       /\ oHow' = how
       /\ oRes' = check_retval(r)
       /\ fdNode' = r.node

\* do_open_relative_to(dir, pathname, flags, mode)
do_open_relative_to(has, dir, pathname, flags, mode) ==
    LET m == (IF mode.some THEN mode.val ELSE 0) % 4096
        how == [resolve |-> {"RESOLVE_IN_ROOT", "RESOLVE_NO_MAGICLINKS"},
                flags |-> flags,
                mode |-> m]
        r == SYS_openat2(has, dir, pathname, how)
    IN /\ opc = "idle"
       /\ opc' = "done"
       /\ oArgs' = [pathname |-> pathname, flags |-> flags, mode |-> mode]
       /\ oHow' = how
       /\ oRes' = check_retval(r)
       /\ fdNode' = r.node

NoArgs == [pathname |-> [abs |-> FALSE, comps |-> <<>>], flags |-> {},
           mode |-> [some |-> FALSE, val |-> 0]]

NoHow == [resolve |-> {}, flags |-> {}, mode |-> 0]

NoResult == [kind |-> "none", errno |-> "none", fd |-> -1]

\* The caller is done with the result: it closes the descriptor, if any.
close_fd ==
    /\ opc = "done"
    /\ opc' = "idle"
    /\ oArgs' = NoArgs
    /\ oHow' = NoHow
    /\ oRes' = NoResult
    /\ fdNode' = NoNode

InitOpen ==
    /\ opc = "idle"
    /\ oArgs = NoArgs
    /\ oHow = NoHow
    /\ oRes = NoResult
    /\ fdNode = NoNode

\* ---------------------------------------------------------------------
\* util.rs: the PID file
\* ---------------------------------------------------------------------

\* The processes that call write_pid_file on the same path.
Procs == {"p1", "p2"}

\* process::id() of each of them.
ProcessId == [p \in Procs |-> IF p = "p1" THEN 4321 ELSE 77]

\* Inodes are numbered 1..MaxInodes as files are created at the path.
MaxInodes == 3

Inodes == 1..MaxInodes

\* No file: the path names nothing, or the process has no file open.
NoInode == 0

DigitChars == <<"0", "1", "2", "3", "4", "5", "6", "7", "8", "9">>

\* format!("{}", n) for n >= 0.
RECURSIVE ToDecimal(_)
ToDecimal(n) ==
    IF n < 10 THEN <<DigitChars[n + 1]>>
    ELSE Append(ToDecimal(n \div 10), DigitChars[(n % 10) + 1])

\* format!("{}\n", process::id())
PidText(p) == Append(ToDecimal(ProcessId[p]), "\n")

\* write_all on a file opened without O_TRUNC and without O_APPEND: the bytes
\* replace the file's content from offset 0 on, what lies beyond them stays.
WriteAtStart(old, bytes) ==
    IF Len(bytes) >= Len(old) THEN bytes
    ELSE bytes \o SubSeq(old, Len(bytes) + 1, Len(old))

\* flock(fd, LOCK_EX | LOCK_NB) by process p on the file with inode ino:
\* EWOULDBLOCK when another open file description holds the lock; the
\* kernel may also refuse for want of memory (nolck).
SYS_flock(p, ino, nolck) ==
    IF nolck THEN [ret |-> -1, errno |-> "ENOLCK"]
    ELSE IF flocks[ino] \notin {"nobody", p} THEN [ret |-> -1, errno |-> "EWOULDBLOCK"]
    ELSE [ret |-> 0, errno |-> "none"]

\* try_lock_file taking the file for locked whatever flock returned.
try_lock_file_IgnoresReturn(ret) == [ok |-> TRUE, errno |-> "none"]

\* try_lock_file(file), given what flock returned.
try_lock_file(ret) ==
    IF ret.ret = -1 THEN [ok |-> FALSE, errno |-> ret.errno]
    ELSE [ok |-> TRUE, errno |-> "none"]

\* Dropping the File closes it, which releases its lock.
DropFile(p) == [i \in Inodes |-> IF flocks[i] = p THEN "nobody" ELSE flocks[i]]

\* write_pid_file(pid_file_name) is called by a process that holds no PID
\* file.
write_pid_file(p) ==
    /\ ppc[p] \in {"out", "err"}
    /\ ppc' = [ppc EXCEPT ![p] = "open"]
    /\ pres' = [pres EXCEPT ![p] = "none"]
    /\ UNCHANGED <<pfile, flocks, pathIno, nInodes, content>>

\* OpenOptions::new()...create(true).open(pid_file_name)?: opens the file
\* at the path, creating it when the path names nothing.
write_pid_file_open(p, ok) ==
    /\ ppc[p] = "open"
    /\ IF ~ok
       THEN /\ ppc' = [ppc EXCEPT ![p] = "err"]
            /\ pres' = [pres EXCEPT ![p] = "EACCES"]
            /\ UNCHANGED <<pfile, flocks, pathIno, nInodes, content>>
       ELSE /\ IF pathIno = NoInode
               THEN /\ nInodes < MaxInodes
                    /\ nInodes' = nInodes + 1
                    /\ pathIno' = nInodes + 1
               ELSE UNCHANGED <<nInodes, pathIno>>
            /\ pfile' = [pfile EXCEPT ![p] = pathIno']
            /\ ppc' = [ppc EXCEPT ![p] = "lock"]
            /\ UNCHANGED <<flocks, content, pres>>

\* try_lock_file(&file)?
write_pid_file_lock(p, nolck) ==
    /\ ppc[p] = "lock"
    /\ LET ret == SYS_flock(p, pfile[p], nolck)
           r == try_lock_file(ret)
       IN IF r.ok
          THEN /\ flocks' = IF ret.ret = 0 THEN [flocks EXCEPT ![pfile[p]] = p] ELSE flocks
               /\ ppc' = [ppc EXCEPT ![p] = "check"]
               /\ UNCHANGED <<pfile, pres>>
          ELSE /\ ppc' = [ppc EXCEPT ![p] = "err"]
               /\ pres' = [pres EXCEPT ![p] = r.errno]
               /\ pfile' = [pfile EXCEPT ![p] = NoInode]
               /\ flocks' = DropFile(p)
    /\ UNCHANGED <<pathIno, nInodes, content>>

\* A write_pid_file that takes the file it locked without looking at the
\* path again.
write_pid_file_check_NoCompare(p, statOk) ==
    /\ ppc[p] = "check"
    /\ ppc' = [ppc EXCEPT ![p] = "write"]
    /\ UNCHANGED <<pfile, flocks, pathIno, nInodes, content, pres>>

\* "Let's make sure the file we locked still exists in the filesystem":
\* compares the locked file's inode with the inode at the path; when the
\* path names nothing, or stat fails otherwise (statOk false), or names
\* another file, the file is dropped and the loop starts over.
write_pid_file_check(p, statOk) ==
    /\ ppc[p] = "check"
    /\ LET locked == pfile[p]
           stat == IF statOk /\ pathIno # NoInode
                   THEN [ok |-> TRUE, ino |-> pathIno]
                   ELSE [ok |-> FALSE, ino |-> NoInode]
       IN IF stat.ok /\ locked = stat.ino
          THEN /\ ppc' = [ppc EXCEPT ![p] = "write"]
               /\ UNCHANGED <<pfile, flocks>>
          ELSE /\ ppc' = [ppc EXCEPT ![p] = "open"]
               /\ pfile' = [pfile EXCEPT ![p] = NoInode]
               /\ flocks' = DropFile(p)
    /\ UNCHANGED <<pathIno, nInodes, content, pres>>

\* pid_file.write_all(pid.as_bytes())?; Ok(pid_file)
write_pid_file_write(p, ok) ==
    /\ ppc[p] = "write"
    /\ IF ok
       THEN /\ content' = [content EXCEPT ![pfile[p]] = WriteAtStart(@, PidText(p))]
            /\ ppc' = [ppc EXCEPT ![p] = "held"]
            /\ pres' = [pres EXCEPT ![p] = "ok"]
            /\ UNCHANGED <<pfile, flocks>>
       ELSE /\ ppc' = [ppc EXCEPT ![p] = "err"]
            /\ pres' = [pres EXCEPT ![p] = "ENOSPC"]
            /\ pfile' = [pfile EXCEPT ![p] = NoInode]
            /\ flocks' = DropFile(p)
            /\ UNCHANGED content
    /\ UNCHANGED <<pathIno, nInodes>>

\* The process that holds the PID file ends (or drops the File): the file
\* is closed and its lock released; the file stays at the path.
ProcessEnds(p) ==
    /\ ppc[p] = "held"
    /\ ppc' = [ppc EXCEPT ![p] = "out"]
    /\ pfile' = [pfile EXCEPT ![p] = NoInode]
    /\ flocks' = DropFile(p)
    /\ UNCHANGED <<pathIno, nInodes, content, pres>>

\* Somebody removes the file at the path (the race write_pid_file checks
\* for); the inode lives on while it is open.
Unlink ==
    /\ pathIno # NoInode
    /\ pathIno' = NoInode
    /\ UNCHANGED <<ppc, pfile, flocks, nInodes, content, pres>>

InitPid ==
    /\ ppc = [p \in Procs |-> "out"]
    /\ pfile = [p \in Procs |-> NoInode]
    /\ flocks = [i \in Inodes |-> "nobody"]
    /\ pathIno = NoInode
    /\ nInodes = 0
    /\ content = [i \in Inodes |-> <<>>]
    /\ pres = [p \in Procs |-> "none"]

\* ---------------------------------------------------------------------
\* util.rs: sfork and wait_for_child
\* ---------------------------------------------------------------------

\* getpid() of the process that calls sfork, and the pid fork gives its child.
ForkPids == [parent |-> 4321, child |-> 4322]

SIGTERM == 15

EXIT_FAILURE == 1

\* How a child can end, or stop: exit(val), killed by signal val (with or
\* without a core dump), stopped by signal val (reported for a traced child).
ChildEndings ==
    [kind : {"exit"}, val : {0, 1, 3, 255}, core : {FALSE}]
        \cup [kind : {"signal"}, val : {9, SIGTERM}, core : {FALSE}]
        \cup [kind : {"signal"}, val : {11}, core : {TRUE}]
        \cup [kind : {"stop"}, val : {19}, core : {FALSE}]

NoEnding == [kind |-> "none", val |-> 0, core |-> FALSE]

\* The wait status the kernel builds (wait(2)).
WaitStatus(end) ==
    CASE end.kind = "exit" -> end.val * 256
      [] end.kind = "signal" -> end.val + (IF end.core THEN 128 ELSE 0)
      [] end.kind = "stop" -> end.val * 256 + 127
      [] OTHER -> 0

\* libc's wait status macros.
WIFEXITED(status) == status % 128 = 0

WEXITSTATUS(status) == (status \div 256) % 256

WIFSIGNALED(status) == (status % 128) \in 1..126

WTERMSIG(status) == status % 128

\* wait_for_child's exit code that reports the signal number as it is.
exit_code_PositiveSignal(status) ==
    IF WIFEXITED(status) THEN WEXITSTATUS(status)
    ELSE IF WIFSIGNALED(status) THEN WTERMSIG(status)
    ELSE EXIT_FAILURE

\* wait_for_child: `let exit_code = if libc::WIFEXITED(status) ...`
exit_code(status) ==
    IF WIFEXITED(status) THEN WEXITSTATUS(status)
    ELSE IF WIFSIGNALED(status) THEN 0 - WTERMSIG(status)
    ELSE EXIT_FAILURE

\* The kernel when the parent ends, by process::exit or killed: a child
\* that has asked for a parent-death signal is sent it.
ParentGone ==
    /\ parentAlive' = FALSE
    /\ sigSent' = (sigSent \/ (pdeathsig /\ cpc \notin {"none", "dead"}))

\* sfork: getpid() and pidfd_open(cur_pid, 0); -1 is returned as Err.
sfork_pidfd_open(ok) ==
    /\ spc = "start" /\ parentAlive
    /\ IF ok
       THEN /\ pidfd' = ForkPids.parent
            /\ spc' = "opened"
            /\ UNCHANGED sres
       ELSE /\ spc' = "returned"
            /\ sres' = "err"
            /\ UNCHANGED pidfd
    /\ UNCHANGED <<parentAlive, cpc, cres, pdeathsig, sigSent, childEnd, wlog, exited>>

\* sfork: libc::fork(); the parent returns Ok(child_pid), or Err on -1; the
\* child goes on inside sfork with a copy of the descriptor.
sfork_fork(ok) ==
    /\ spc = "opened" /\ parentAlive
    /\ spc' = "returned"
    /\ IF ok
       THEN /\ sres' = "child_pid"
            /\ cpc' = "prctl"
       ELSE /\ sres' = "err"
            /\ UNCHANGED cpc
    /\ UNCHANGED <<parentAlive, pidfd, cres, pdeathsig, sigSent, childEnd, wlog, exited>>

\* Child: prctl(PR_SET_PDEATHSIG, SIGTERM).  It takes effect for a parent
\* that ends from now on; SIGTERM is a valid signal, so ret is 0.
sfork_child_prctl ==
    /\ cpc = "prctl"
    /\ pdeathsig' = TRUE
    /\ cpc' = "poll"
    /\ UNCHANGED <<parentAlive, spc, sres, pidfd, cres, sigSent, childEnd, wlog, exited>>

\* poll(&mut pollfds, 1, 0) on the descriptor of the parent: 1 when the
\* parent has ended (POLLIN), 0 when not, -1 on failure.
SYS_poll(fails) == IF fails THEN -1 ELSE IF parentAlive THEN 0 ELSE 1

\* A child that takes any poll result but -1 for a living parent.
sfork_child_poll_IgnoresRevents(fails) ==
    /\ cpc = "poll"
    /\ pidfd = ForkPids.parent
    /\ LET num_fds == SYS_poll(fails)
       IN IF num_fds = -1
          THEN cpc' = "failed" /\ cres' = "poll_err"
          ELSE cpc' = "running" /\ cres' = "ok"
    /\ UNCHANGED <<parentAlive, spc, sres, pidfd, pdeathsig, sigSent, childEnd, wlog, exited>>

\* Child: "Check if the original parent died before libc::prctl() was
\* called", then return Ok(0).
sfork_child_poll(fails) ==
    /\ cpc = "poll"
    /\ pidfd = ForkPids.parent
    /\ LET num_fds == SYS_poll(fails)
       IN IF num_fds = -1
          THEN cpc' = "failed" /\ cres' = "poll_err"
          ELSE IF num_fds # 0
          THEN cpc' = "failed" /\ cres' = "Parent process died unexpectedly"
          ELSE cpc' = "running" /\ cres' = "ok"
    /\ UNCHANGED <<parentAlive, spc, sres, pidfd, pdeathsig, sigSent, childEnd, wlog, exited>>

\* The child ends: it exits, or a signal kills it (SIGTERM only once sent,
\* here by the parent's death).
ChildEnds(end) ==
    /\ cpc \notin {"none", "dead"}
    /\ end.kind \in {"exit", "signal"}
    /\ (end.kind = "signal" /\ end.val = SIGTERM) => sigSent
    /\ cpc' = "dead"
    /\ childEnd' = end
    /\ UNCHANGED <<parentAlive, spc, sres, pidfd, cres, pdeathsig, sigSent, wlog, exited>>

\* The parent is killed.
ParentDies ==
    /\ parentAlive /\ spc # "exited"
    /\ ParentGone
    /\ UNCHANGED <<spc, sres, pidfd, cpc, cres, pdeathsig, childEnd, wlog, exited>>

\* wait_for_child(pid), called by the parent with the pid sfork returned:
\* capng::clear and capng::apply (a failure is logged), then waitpid.
wait_for_child(pid, capsOk) ==
    /\ spc = "returned" /\ sres = "child_pid" /\ parentAlive
    /\ pid = ForkPids.child
    /\ spc' = "waitpid"
    /\ wlog' = IF capsOk THEN wlog ELSE wlog \cup {"warning: can't apply the parent capabilities"}
    /\ UNCHANGED <<parentAlive, sres, pidfd, cpc, cres, pdeathsig, sigSent, childEnd, exited>>

\* waitpid(pid, &mut status, 0) returns: the pid and the status of the child
\* that ended (or stopped, for a traced child), or -1.  Then the exit code is
\* computed and process::exit called.
wait_for_child_exit(pid, ret, stop) ==
    /\ spc = "waitpid" /\ parentAlive
    /\ pid = ForkPids.child
    /\ ret \in {pid, -1}
    /\ stop.kind = "stop"
    /\ ret = pid => cpc \in {"dead", "running"}
    /\ LET reported == IF cpc = "dead" THEN childEnd ELSE stop
           status == IF ret = pid THEN WaitStatus(reported) ELSE 0
       IN IF ret # pid
          THEN /\ wlog' = wlog \cup {"Error during waitpid()"}
               /\ exited' = [done |-> TRUE, waited |-> FALSE, seen |-> NoEnding, code |-> 1]
          ELSE /\ wlog' = wlog \cup
                    (IF WIFEXITED(status) THEN {}
                     ELSE IF WIFSIGNALED(status) THEN {"Child process terminated by signal"}
                     ELSE {"Unexpected waitpid status"})
               /\ exited' = [done |-> TRUE, waited |-> TRUE, seen |-> reported,
                             code |-> exit_code(status)]
    /\ spc' = "exited"
    /\ ParentGone
    /\ UNCHANGED <<sres, pidfd, cpc, cres, pdeathsig, childEnd>>

NotExited == [done |-> FALSE, waited |-> FALSE, seen |-> NoEnding, code |-> 0]

InitFork ==
    /\ parentAlive = TRUE
    /\ spc = "start"
    /\ sres = "none"
    /\ pidfd = -1
    /\ cpc = "none"
    /\ cres = "none"
    /\ pdeathsig = FALSE
    /\ sigSent = FALSE
    /\ childEnd = NoEnding
    /\ wlog = {}
    /\ exited = NotExited

\* ---------------------------------------------------------------------
\* oslib.rs: mount and umount2
\* ---------------------------------------------------------------------

\* Strings are sequences of bytes; "NUL" is the 0 byte.
StrBytes == {"x", "NUL"}

\* The strings callers pass have at most MaxStrLen bytes.
MaxStrLen == 2

RECURSIVE StrsUpTo(_)
StrsUpTo(n) ==
    IF n = 0 THEN {<<>>}
    ELSE LET shorter == StrsUpTo(n - 1)
         IN shorter \cup {Append(s, b) : s \in {x \in shorter : Len(x) = n - 1},
                                         b \in StrBytes}

Strs == StrsUpTo(MaxStrLen)

\* Option<&str>
OptStrs == {[some |-> FALSE, val |-> <<>>]} \cup [some : {TRUE}, val : Strs]

unwrap_or(opt, default) == IF opt.some THEN opt.val ELSE default

\* CString::new(s): Err(NulError) when s contains a 0 byte, else the bytes
\* with the terminating 0.
CString_new(s) ==
    IF \E i \in 1..Len(s) : s[i] = "NUL"
    THEN [ok |-> FALSE, bytes |-> <<>>]
    ELSE [ok |-> TRUE, bytes |-> Append(s, "NUL")]

\* A mount that turns the NulError into an Err it returns.
mount_ReturnsError(source, target, fstype, flags, kret) ==
    LET src == CString_new(unwrap_or(source, <<>>))
        tgt == CString_new(target)
        fst == CString_new(unwrap_or(fstype, <<>>))
    IN /\ mout = "none"
       /\ margs' = <<unwrap_or(source, <<>>), target, unwrap_or(fstype, <<>>)>>
       /\ IF ~src.ok \/ ~tgt.ok \/ ~fst.ok
          THEN /\ mout' = "err"
               /\ msys' = <<>>
          ELSE /\ msys' = <<[nr |-> "mount", strs |-> <<src.bytes, tgt.bytes, fst.bytes>>,
                            flags |-> flags]>>
               /\ mout' = check_retval([ret |-> kret, errno |-> "EPERM"]).kind

\* mount(source, target, fstype, flags); kret is what mount(2) returns.
mount(source, target, fstype, flags, kret) ==
    LET src == CString_new(unwrap_or(source, <<>>))
        tgt == CString_new(target)
        fst == CString_new(unwrap_or(fstype, <<>>))
    IN /\ mout = "none"
       /\ margs' = <<unwrap_or(source, <<>>), target, unwrap_or(fstype, <<>>)>>
       /\ IF ~src.ok \/ ~tgt.ok \/ ~fst.ok
          THEN \* .unwrap() on Err(NulError)
               /\ mout' = "panic"
               /\ msys' = <<>>
          ELSE /\ msys' = <<[nr |-> "mount", strs |-> <<src.bytes, tgt.bytes, fst.bytes>>,
                            flags |-> flags]>>
               /\ mout' = check_retval([ret |-> kret, errno |-> "EPERM"]).kind

\* umount2(target, flags); kret is what umount2(2) returns.
umount2(target, flags, kret) ==
    LET tgt == CString_new(target)
    IN /\ mout = "none"
       /\ margs' = <<target>>
       /\ IF ~tgt.ok
          THEN /\ mout' = "panic"
               /\ msys' = <<>>
          ELSE /\ msys' = <<[nr |-> "umount2", strs |-> <<tgt.bytes>>, flags |-> flags]>>
               /\ mout' = check_retval([ret |-> kret, errno |-> "EPERM"]).kind

\* The caller goes on to its next call (with a new thread after a panic).
mount_done ==
    /\ mout # "none"
    /\ mout' = "none"
    /\ margs' = <<>>
    /\ msys' = <<>>

InitMount ==
    /\ mout = "none"
    /\ margs = <<>>
    /\ msys = <<>>

\* ---------------------------------------------------------------------
\* oslib.rs: umask and ScopedUmask
\* ---------------------------------------------------------------------

\* The masks callers ask for (u32): 0, 0o022, 0o077 and 0o1022, which has a
\* bit above the permission bits.
Masks == {0, 18, 63, 530}

\* A thread holds at most MaxGuards guards at a time.
MaxGuards == 2

\* umask(2) keeps the permission bits of its argument: mask & 0o777.
SYS_umask(mask) == mask % 512

\* umask(mask): sets the process's mask and returns the previous one. The
\* call always succeeds.
umask(mask) == [ret |-> procUmask, now |-> SYS_umask(mask)]

\* ScopedUmask::new(new_umask) on thread t: the guard keeps what umask
\* returned.
ScopedUmask_new(t, new_umask) ==
    /\ Len(umaskGuards[t]) < MaxGuards
    /\ LET r == umask(new_umask)
       IN /\ procUmask' = r.now
          /\ umaskGuards' = [umaskGuards EXCEPT ![t] = Append(@, [umask |-> r.ret])]
    /\ UNCHANGED umaskAtStart

\* Drop for ScopedUmask on thread t: umask(self.umask). A thread's guards
\* leave their scopes in the reverse order of their creation.
ScopedUmask_drop(t) ==
    /\ umaskGuards[t] # <<>>
    /\ LET self == umaskGuards[t][Len(umaskGuards[t])]
           r == umask(self.umask)
       IN /\ procUmask' = r.now
          /\ umaskGuards' = [umaskGuards EXCEPT ![t] = SubSeq(@, 1, Len(@) - 1)]
    /\ UNCHANGED umaskAtStart

InitUmask ==
    /\ umaskAtStart = 18      \* the process starts with the mask 0o022
    /\ procUmask = umaskAtStart
    /\ umaskGuards = [t \in Threads |-> <<>>]

InitCreds ==
    /\ euid = [t \in Threads |-> 0]
    /\ egid = [t \in Threads |-> 0]
    /\ capEff = [t \in Threads |-> Permitted]
    /\ pc = [t \in Threads |-> "idle"]
    /\ req = [t \in Threads |-> [uid |-> 0, gid |-> 0]]
    /\ credBefore = [t \in Threads |-> [uid |-> 0, gid |-> 0]]
    /\ holdU = [t \in Threads |-> FALSE]
    /\ holdG = [t \in Threads |-> FALSE]
    /\ res = [t \in Threads |-> "none"]
    /\ trace = [t \in Threads |-> <<>>]
    /\ log = [t \in Threads |-> {}]
    /\ capGuard = [t \in Threads |-> "none"]
    /\ capReq = [t \in Threads |-> "none"]
    /\ capRes = [t \in Threads |-> "none"]
    /\ capBefore = [t \in Threads |-> Permitted]
    /\ capMoved = [t \in Threads |-> FALSE]
    /\ panicked = [t \in Threads |-> FALSE]
    /\ aborted = FALSE

Init ==
    /\ InitCreds /\ InitHandles /\ InitAnchors /\ InitOpen /\ InitPid
    /\ InitFork /\ InitMount /\ InitUmask

\* The credential operations leave the rest of the core alone.
CredsOnly == UNCHANGED <<handleVars, anchorVars, openVars, pidVars, forkVars, mountVars, umaskVars>>

\* One worker thread using credential switches and capability guards in
\* any order the API allows, beside a second thread that only uses a
\* capability guard.
NextCreds ==
    \/ \E uid \in Ids, gid \in Ids : set_creds("t1", uid, gid) /\ CredsOnly
    \/ ScopedGid_new("t1") /\ CredsOnly
    \/ ScopedUid_new("t1") /\ CredsOnly
    \/ ScopedGid_unwind("t1") /\ CredsOnly
    \/ set_creds_return("t1") /\ CredsOnly
    \/ ScopedUid_drop("t1") /\ CredsOnly
    \/ ScopedGid_drop("t1") /\ CredsOnly
    \/ \E n \in CapNames : drop_effective_cap("t1", n) /\ CredsOnly
    \/ ScopedCaps_drop("t1") /\ CredsOnly
    \/ drop_effective_cap("t2", "FSETID") /\ CredsOnly
    \/ ScopedCaps_drop("t2") /\ CredsOnly

SpecCreds == Init /\ [][NextCreds]_vars

\* The client each thread serves in the two-thread specification.
ClientOf(t) == IF t = "t1" THEN 1 ELSE 2

\* Two worker threads serving different clients, interleaved syscall by
\* syscall.
NextThreads ==
    \E t \in Threads :
        \/ \E uid \in {0, ClientOf(t)}, gid \in {0, ClientOf(t)} :
                set_creds(t, uid, gid) /\ CredsOnly
        \/ ScopedGid_new(t) /\ CredsOnly
        \/ ScopedUid_new(t) /\ CredsOnly
        \/ ScopedGid_unwind(t) /\ CredsOnly
        \/ set_creds_return(t) /\ CredsOnly
        \/ ScopedUid_drop(t) /\ CredsOnly
        \/ ScopedGid_drop(t) /\ CredsOnly

SpecThreads == Init /\ [][NextThreads]_vars

\* Threads deriving file handles.
NextHandles ==
    \E t \in Threads :
        \/ FromNameAt(t) /\ UNCHANGED <<credVars, anchorVars, openVars, pidVars, forkVars, mountVars, umaskVars>>
        \/ FromFd(t) /\ UNCHANGED <<credVars, anchorVars, openVars, pidVars, forkVars, mountVars, umaskVars>>

SpecHandles == Init /\ [][NextHandles]_vars

\* Threads making handles openable, opening them and dropping them,
\* concurrently.
NextAnchors ==
    \E t \in Lookers :
        \/ \E fh \in FileHandles : to_openable(t, fh) /\ UNCHANGED <<credVars, handleVars, openVars, pidVars, forkVars, mountVars, umaskVars>>
        \/ MountFds_get_create(t) /\ UNCHANGED <<credVars, handleVars, openVars, pidVars, forkVars, mountVars, umaskVars>>
        \/ OpenableFileHandle_open(t) /\ UNCHANGED <<credVars, handleVars, openVars, pidVars, forkVars, mountVars, umaskVars>>
        \/ OpenableFileHandle_drop(t) /\ UNCHANGED <<credVars, handleVars, openVars, pidVars, forkVars, mountVars, umaskVars>>

SpecAnchors == Init /\ [][NextAnchors]_vars

\* A caller opening client-supplied pathnames relative to the exported
\* directory, one at a time.
NextOpen ==
    \/ \E has \in BOOLEAN, pathname \in Pathnames, flags \in OpenFlags, mode \in ModeArgs :
            do_open_relative_to(has, BaseDir, pathname, flags, mode)
                /\ UNCHANGED <<credVars, handleVars, anchorVars, pidVars, forkVars, mountVars, umaskVars>>
    \/ close_fd /\ UNCHANGED <<credVars, handleVars, anchorVars, pidVars, forkVars, mountVars, umaskVars>>

SpecOpen == Init /\ [][NextOpen]_vars

\* Processes acquiring the PID file at one path while the path may be
\* removed under them.
NextPid ==
    \/ \E p \in Procs :
        \/ write_pid_file(p) /\ UNCHANGED <<credVars, handleVars, anchorVars, openVars, forkVars, mountVars, umaskVars>>
        \/ \E ok \in BOOLEAN :
                write_pid_file_open(p, ok) /\ UNCHANGED <<credVars, handleVars, anchorVars, openVars, forkVars, mountVars, umaskVars>>
        \/ \E nolck \in BOOLEAN :
                write_pid_file_lock(p, nolck) /\ UNCHANGED <<credVars, handleVars, anchorVars, openVars, forkVars, mountVars, umaskVars>>
        \/ \E statOk \in BOOLEAN :
                write_pid_file_check(p, statOk) /\ UNCHANGED <<credVars, handleVars, anchorVars, openVars, forkVars, mountVars, umaskVars>>
        \/ \E ok \in BOOLEAN :
                write_pid_file_write(p, ok) /\ UNCHANGED <<credVars, handleVars, anchorVars, openVars, forkVars, mountVars, umaskVars>>
        \/ ProcessEnds(p) /\ UNCHANGED <<credVars, handleVars, anchorVars, openVars, forkVars, mountVars, umaskVars>>
    \/ Unlink /\ UNCHANGED <<credVars, handleVars, anchorVars, openVars, forkVars, mountVars, umaskVars>>

SpecPid == Init /\ [][NextPid]_vars

\* A process calling sfork and, as the parent, wait_for_child, while its
\* child runs and either of them may end at any time.
NextFork ==
    \/ \E ok \in BOOLEAN :
            sfork_pidfd_open(ok) /\ UNCHANGED <<credVars, handleVars, anchorVars, openVars, pidVars, mountVars, umaskVars>>
    \/ \E ok \in BOOLEAN :
            sfork_fork(ok) /\ UNCHANGED <<credVars, handleVars, anchorVars, openVars, pidVars, mountVars, umaskVars>>
    \/ sfork_child_prctl /\ UNCHANGED <<credVars, handleVars, anchorVars, openVars, pidVars, mountVars, umaskVars>>
    \/ \E fails \in BOOLEAN :
            sfork_child_poll(fails) /\ UNCHANGED <<credVars, handleVars, anchorVars, openVars, pidVars, mountVars, umaskVars>>
    \/ \E end \in ChildEndings :
            ChildEnds(end) /\ UNCHANGED <<credVars, handleVars, anchorVars, openVars, pidVars, mountVars, umaskVars>>
    \/ ParentDies /\ UNCHANGED <<credVars, handleVars, anchorVars, openVars, pidVars, mountVars, umaskVars>>
    \/ \E capsOk \in BOOLEAN :
            wait_for_child(ForkPids.child, capsOk)
                /\ UNCHANGED <<credVars, handleVars, anchorVars, openVars, pidVars, mountVars, umaskVars>>
    \/ \E ret \in {ForkPids.child, -1}, stop \in {e \in ChildEndings : e.kind = "stop"} :
            wait_for_child_exit(ForkPids.child, ret, stop)
                /\ UNCHANGED <<credVars, handleVars, anchorVars, openVars, pidVars, mountVars, umaskVars>>

SpecFork == Init /\ [][NextFork]_vars

\* A caller of the mount wrappers, one call at a time.
NextMount ==
    \/ \E source \in OptStrs, target \in Strs, fstype \in OptStrs, flags \in {0, 4096}, kret \in {0, -1} :
            mount(source, target, fstype, flags, kret)
                /\ UNCHANGED <<credVars, handleVars, anchorVars, openVars, pidVars, forkVars, umaskVars>>
    \/ \E target \in Strs, flags \in {0, 2}, kret \in {0, -1} :
            umount2(target, flags, kret)
                /\ UNCHANGED <<credVars, handleVars, anchorVars, openVars, pidVars, forkVars, umaskVars>>
    \/ mount_done /\ UNCHANGED <<credVars, handleVars, anchorVars, openVars, pidVars, forkVars, umaskVars>>

SpecMount == Init /\ [][NextMount]_vars

\* Threads of one process creating and dropping umask guards.
NextUmask ==
    \E t \in Threads :
        \/ \E new_umask \in Masks :
                ScopedUmask_new(t, new_umask)
                    /\ UNCHANGED <<credVars, handleVars, anchorVars, openVars, pidVars, forkVars, mountVars>>
        \/ ScopedUmask_drop(t)
                /\ UNCHANGED <<credVars, handleVars, anchorVars, openVars, pidVars, forkVars, mountVars>>

SpecUmask == Init /\ [][NextUmask]_vars

\* =====================================================================
\* Properties of the credential guards
\* =====================================================================

RestoreFailed(t, nr) == <<"failed to change credentials back to root", nr>> \in log[t]

\* The switches ScopedGid::new / ScopedUid::new issued in the call's trace.
IsSwitch(c, nr) == c.nr = nr /\ c.val # 0

\* C1: in every set_creds(uid, gid) call the group switch comes first: a
\* setresuid switch in the call's syscall trace is preceded by the successful
\* setresgid switch to gid (when gid # 0), no setresuid switch is issued after
\* a failed group switch, and a call that succeeded for a non-zero pair issued
\* exactly setresgid(gid) then setresuid(uid).
C1_GroupBeforeUser ==
    \A t \in Threads :
        /\ \A i \in 1..Len(trace[t]) :
            (IsSwitch(trace[t][i], "setresuid") /\ req[t].gid # 0)
                => \E j \in 1..(i - 1) : trace[t][j] = Call("setresgid", req[t].gid, TRUE)
        /\ (\E j \in 1..Len(trace[t]) : IsSwitch(trace[t][j], "setresgid") /\ ~trace[t][j].ok)
                => \A i \in 1..Len(trace[t]) : ~IsSwitch(trace[t][i], "setresuid")
        /\ (pc[t] = "idle" /\ res[t] = "ok" /\ req[t].uid # 0 /\ req[t].gid # 0)
                => trace[t] = <<Call("setresgid", req[t].gid, TRUE),
                                Call("setresuid", req[t].uid, TRUE)>>

\* A set_creds call for a non-zero pair has returned its two guards.
C1_Witness ==
    /\ pc["t1"] = "idle" /\ res["t1"] = "ok"
    /\ req["t1"].uid # 0 /\ req["t1"].gid # 0
    /\ holdU["t1"] /\ holdG["t1"]
    /\ Len(trace["t1"]) = 2

\* set_creds succeeded for a non-zero pair and both guards are gone again.
Released(t) ==
    /\ pc[t] = "idle" /\ res[t] = "ok"
    /\ req[t].uid # 0 /\ req[t].gid # 0
    /\ ~holdU[t] /\ ~holdG[t]

\* C2 as stated: after set_creds succeeded for a non-zero pair and both
\* guards were released, the thread's effective uid and gid are 0 again.
C2_Original ==
    \A t \in Threads : Released(t) => (euid[t] = 0 /\ egid[t] = 0)

\* C2 amended: after both guards were released, each effective id is 0 again
\* unless its restoring syscall failed; then the failure was logged and the
\* id is still the one switched to.
C2_RestoredUnlessFailed ==
    \A t \in Threads : Released(t) =>
        /\ euid[t] = (IF RestoreFailed(t, "setresuid") THEN req[t].uid ELSE 0)
        /\ egid[t] = (IF RestoreFailed(t, "setresgid") THEN req[t].gid ELSE 0)

\* Both guards released, both restores succeeded.
C2_Witness ==
    /\ Released("t1") /\ log["t1"] = {}
    /\ euid["t1"] = 0 /\ egid["t1"] = 0

\* The thread took no step.
Stays(t) == pc'[t] = pc[t] /\ holdU'[t] = holdU[t] /\ holdG'[t] = holdG[t]

\* C3: a switch or restore changes only the calling thread's effective ids:
\* while a thread holds the guard of a component it switched, that effective
\* id is the one it requested, and a step of another thread leaves its
\* effective uid and gid as they are.
C3_ThreadIsolation ==
    [][\A t \in Threads :
        /\ holdU'[t] => euid'[t] = req'[t].uid
        /\ holdG'[t] => egid'[t] = req'[t].gid
        /\ Stays(t) => (euid'[t] = euid[t] /\ egid'[t] = egid[t])]_vars

\* Both threads are inside their guards at once, each under its own client.
C3_Witness ==
    /\ \A t \in Threads : pc[t] = "idle" /\ holdU[t] /\ holdG[t]
    /\ euid["t1"] # euid["t2"] /\ egid["t1"] # egid["t2"]
    /\ \A t \in Threads : euid[t] = ClientOf(t) /\ egid[t] = ClientOf(t)

\* The calls and releases of capability guards, seen as steps.
CapCall(t) == \E n \in Caps : drop_effective_cap(t, n)

CapRelease(t) == capGuard[t] # "none" /\ capGuard'[t] = "none"

\* C9 as stated: a capability that is in the effective set is removed and a
\* guard is returned, and after the guard's release the effective set is what
\* it was before the call; a capability that is not in the effective set
\* gives no guard, no error, and an unchanged effective set.
C9_Original ==
    [][\A t \in Threads :
        /\ CapCall(t) =>
             IF capReq'[t] \in capEff[t]
             THEN /\ capRes'[t] = "some" /\ capGuard'[t] = capReq'[t]
                  /\ capEff'[t] = capEff[t] \ {capReq'[t]}
             ELSE /\ capRes'[t] = "nil" /\ capGuard'[t] = "none"
                  /\ capEff'[t] = capEff[t]
        /\ (CapRelease(t) /\ ~panicked'[t]) => capEff'[t] = capBefore[t]]_vars

\* C9 amended: a capability in the effective set is removed and a guard
\* returned unless capng fails to update or apply the set, and then an error
\* is returned and nothing changes; a release that completes re-adds the
\* capability, so with no credential switch on the thread in between the
\* effective set is what it was before the call; a capability not in the
\* effective set gives no guard, no error and no change.
C9_DropAndRestore ==
    [][\A t \in Threads :
        /\ CapCall(t) =>
             IF capReq'[t] \in capEff[t]
             THEN \/ /\ capRes'[t] = "some" /\ capGuard'[t] = capReq'[t]
                     /\ capEff'[t] = capEff[t] \ {capReq'[t]}
                  \/ /\ capRes'[t] = "err" /\ capGuard'[t] = "none"
                     /\ capEff'[t] = capEff[t]
             ELSE /\ capRes'[t] = "nil" /\ capGuard'[t] = "none"
                  /\ capEff'[t] = capEff[t]
        /\ (CapRelease(t) /\ ~panicked'[t]) =>
             /\ capEff'[t] = capEff[t] \cup {capGuard[t]}
             /\ ~capMoved[t] => capEff'[t] = capBefore[t]]_vars

\* A guard was returned and released with no credential switch in between.
C9_Witness ==
    /\ capRes["t1"] = "some" /\ capGuard["t1"] = "none"
    /\ ~panicked["t1"] /\ ~capMoved["t1"]
    /\ capEff["t1"] = capBefore["t1"]

\* A thread starts an operation of this core.
StartsOperation(t) ==
    \/ \E uid \in Ids, gid \in Ids : set_creds(t, uid, gid)
    \/ \E n \in CapNames : drop_effective_cap(t, n)

\* A uid/gid guard is released and its restoring syscall fails.
CredRestoreFails(t) ==
    /\ (holdU[t] /\ ~holdU'[t]) \/ (holdG[t] /\ ~holdG'[t])
    /\ euid'[t] = euid[t] /\ egid'[t] = egid[t]
    /\ euid[t] # 0 \/ egid[t] # 0

Returns(t) == pc[t] = "add_cap" /\ pc'[t] = "idle"

AddCapWarned(t) == <<"failed to add 'DAC_OVERRIDE'", "capng">> \in log[t]

NonRoot(t) == req[t].uid # 0 \/ req[t].gid # 0

\* C11 as stated: whenever set_creds returns success for a non-root identity,
\* DAC_OVERRIDE is in the thread's effective set.
C11_Original ==
    [][\A t \in Threads :
        (Returns(t) /\ res[t] = "ok" /\ NonRoot(t)) => "DAC_OVERRIDE" \in capEff'[t]]_vars

\* C11: whenever set_creds returns success for a non-root identity,
\* DAC_OVERRIDE is in the thread's effective set unless add_cap_to_eff
\* failed; then the failure was logged as a warning, set_creds returns
\* success all the same and the effective set is what the switch left.
C11_DacOverrideUnlessWarned ==
    [][\A t \in Threads :
        (Returns(t) /\ res[t] = "ok" /\ NonRoot(t)) =>
            IF AddCapWarned(t)'
            THEN capEff'[t] = capEff[t]
            ELSE "DAC_OVERRIDE" \in capEff'[t]]_vars

\* set_creds has returned its guards for a non-root user, and of the
\* effective set the switch cleared DAC_OVERRIDE is back.
C11_Witness ==
    /\ pc["t1"] = "idle" /\ res["t1"] = "ok"
    /\ req["t1"].uid # 0 /\ holdU["t1"] /\ euid["t1"] = req["t1"].uid
    /\ log["t1"] = {}
    /\ capEff["t1"] = {"DAC_OVERRIDE"}

NoSyscall(t, nr) == \A i \in 1..Len(trace[t]) : trace[t][i].nr # nr

\* C12 as stated: set_creds returns a guard for a component exactly when the
\* component is non-zero, and issues no syscall for a zero component.
C12_Original ==
    [][\A t \in Threads : Returns(t) =>
        /\ holdU'[t] <=> req[t].uid # 0
        /\ holdG'[t] <=> req[t].gid # 0
        /\ req[t].uid = 0 => NoSyscall(t, "setresuid")
        /\ req[t].gid = 0 => NoSyscall(t, "setresgid")]_vars

\* C12: a set_creds that succeeds returns a guard for a component exactly
\* when the component is non-zero (one that fails returns no guard at all);
\* for a zero component no guard is made and no syscall issued, so
\* set_creds(0, 0) issues none.
C12_GuardIffNonZero ==
    [][\A t \in Threads : Returns(t) =>
        /\ res[t] \in {"ok", "err"}
        /\ res[t] = "ok" => /\ holdU'[t] <=> req[t].uid # 0
                            /\ holdG'[t] <=> req[t].gid # 0
        /\ res[t] = "err" => (~holdU'[t] /\ ~holdG'[t])
        /\ req[t].uid = 0 => (~holdU'[t] /\ NoSyscall(t, "setresuid"))
        /\ req[t].gid = 0 => (~holdG'[t] /\ NoSyscall(t, "setresgid"))
        /\ (req[t].uid = 0 /\ req[t].gid = 0) => (res[t] = "ok" /\ trace[t] = <<>>)]_vars

\* set_creds succeeded with a zero uid and a non-zero gid: a gid guard only,
\* and only the group syscall.
C12_Witness ==
    /\ pc["t1"] = "idle" /\ res["t1"] = "ok"
    /\ req["t1"].uid = 0 /\ req["t1"].gid # 0
    /\ ~holdU["t1"] /\ holdG["t1"]
    /\ trace["t1"] = <<Call("setresgid", req["t1"].gid, TRUE)>>

\* The call's group switch succeeded.
GroupSwitched(t) ==
    \E i \in 1..Len(trace[t]) : trace[t][i] = Call("setresgid", req[t].gid, TRUE) /\ req[t].gid # 0

\* C18 as stated, for a thread that was (0, 0) when it called: a failed
\* set_creds returns no guard and leaves the effective identity (0, 0).
C18_Original ==
    [][\A t \in Threads :
        (Returns(t) /\ res[t] = "err" /\ credBefore[t] = [uid |-> 0, gid |-> 0]) =>
            /\ ~holdU'[t] /\ ~holdG'[t]
            /\ euid'[t] = 0 /\ egid'[t] = 0]_vars

\* C18: a failed set_creds returns no guard and has not changed the effective
\* uid.  If the group switch failed, the effective gid is unchanged too and
\* no user switch was tried.  If the group switch succeeded and the user
\* switch failed, the gid guard was dropped before the return: the effective
\* gid is 0 if its reset succeeded; if the reset failed, that was only logged
\* and the effective gid is still the one switched to.
C18_FailedCall ==
    [][\A t \in Threads :
        (Returns(t) /\ res[t] = "err") =>
            /\ ~holdU'[t] /\ ~holdG'[t]
            /\ euid'[t] = credBefore[t].uid
            /\ IF GroupSwitched(t)
               THEN /\ trace[t][2] = Call("setresuid", req[t].uid, FALSE)
                    /\ Len(trace[t]) = 3 /\ trace[t][3].nr = "setresgid" /\ trace[t][3].val = 0
                    /\ egid'[t] = IF trace[t][3].ok THEN 0 ELSE req[t].gid
                    /\ ~trace[t][3].ok <=> RestoreFailed(t, "setresgid")
               ELSE /\ egid'[t] = credBefore[t].gid
                    /\ req[t].gid # 0 => NoSyscall(t, "setresuid")]_vars

\* The user switch failed after the group switch, the gid was reset, and
\* set_creds has returned the error.
C18_Witness ==
    /\ pc["t1"] = "idle" /\ res["t1"] = "err"
    /\ trace["t1"] = <<Call("setresgid", req["t1"].gid, TRUE),
                       Call("setresuid", req["t1"].uid, FALSE),
                       Call("setresgid", 0, TRUE)>>
    /\ ~holdU["t1"] /\ ~holdG["t1"]
    /\ euid["t1"] = 0 /\ egid["t1"] = 0

\* C20: while a capability guard is alive on a thread, its capability is
\* not in the thread's effective set, whatever set_creds calls and guard
\* releases happen on the thread meanwhile.
C20_DroppedWhileGuarded ==
    \A t \in Threads : capGuard[t] # "none" => capGuard[t] \notin capEff[t]

\* =====================================================================
\* Properties of file handles and the mount-anchor cache
\* =====================================================================

\* C7: from_name_at and from_fd return one of three outcomes, decided by what
\* name_to_handle_at returned: success gives Some(handle) with the reported
\* mount id (and handle bytes); EOPNOTSUPP or EOVERFLOW gives Ok(None); any
\* other errno gives Err with that same errno.
C7_ThreeOutcomes ==
    \A t \in Threads :
        nthOut[t].via # "none" =>
            LET out == nthOut[t].out
                r == fhRes[t]
            IN /\ r.kind \in {"some", "nil", "err"}
               /\ out.ok => /\ r.kind = "some"
                            /\ r.mnt_id = out.mount_id
                            /\ r.handle = out.handle
               /\ (~out.ok /\ out.errno \in {EOPNOTSUPP, EOVERFLOW}) => r.kind = "nil"
               /\ (~out.ok /\ out.errno \notin {EOPNOTSUPP, EOVERFLOW}) =>
                      (r.kind = "err" /\ r.errno = out.errno)

\* from_name_at has answered "no handle possible" to EOVERFLOW while from_fd
\* has passed another errno on.
C7_Witness ==
    /\ nthOut["t1"].via = "from_name_at" /\ nthOut["t1"].out.errno = EOVERFLOW
    /\ fhRes["t1"].kind = "nil"
    /\ nthOut["t2"].via = "from_fd" /\ fhRes["t2"].kind = "err"

Holders == {t \in Lookers : openable[t] # NoHandle}

Creators(m) == {t \in Lookers : lpc[t] = "creating" /\ want[t].mnt_id = m}

\* The anchors created for a mount id whose descriptor is open.
LiveAnchors(m) == {a \in 1..nAnchors : anchorMnt[a] = m /\ a \notin closed}

Obtains(t) == openable[t] = NoHandle /\ openable'[t] # NoHandle

\* C8: an anchor is never closed while an OpenableFileHandle referring to it
\* is alive: its strong count is the number of such handles and it is closed
\* only at count zero (so open() never meets a closed descriptor); and a
\* lookup for a mount id whose cached anchor was closed returns a newly
\* created anchor, not the closed one.
C8_AnchorLifetime ==
    [][/\ \A t \in Lookers :
            openable'[t] # NoHandle =>
                /\ openable'[t].mount_fd \notin closed'
                /\ lastOpen'[t] # "ebadf"
       /\ \A a \in AnchorIds :
            /\ refs'[a] = Cardinality({t \in Lookers : openable'[t].mount_fd = a})
            /\ a \in closed' => refs'[a] = 0
       /\ \A t \in Lookers :
            (Obtains(t) /\ cache[openable'[t].mnt_id] \in closed) =>
                /\ openable'[t].mount_fd # cache[openable'[t].mnt_id]
                /\ openable'[t].mount_fd = nAnchors + 1
                /\ nAnchors' = nAnchors + 1
                /\ cache'[openable'[t].mnt_id] = openable'[t].mount_fd]_vars

\* The first anchor of a mount id was closed and a later lookup for the same
\* mount id holds another one.
C8_Witness ==
    \E t \in Holders, a \in closed :
        /\ anchorMnt[a] = openable[t].mnt_id
        /\ openable[t].mount_fd # a
        /\ lastOpen[t] = "ok"

\* =====================================================================
\* Properties of the restricted open
\* =====================================================================

\* Following the components one by one from the base directory, a ".."
\* is met at depth 0: the pathname would exit the base directory.
RECURSIVE Exits(_, _)
Exits(comps, depth) ==
    IF comps = <<>> THEN FALSE
    ELSE IF Head(comps) = ".." THEN depth = 0 \/ Exits(Tail(comps), depth - 1)
    ELSE Exits(Tail(comps), depth + 1)

ExitsBase(pathname) == Exits(pathname.comps, 0)

\* C5 as stated: for every pathname whose ".." segments would exit the base
\* directory, do_open_relative_to fails.
C5_Original ==
    (opc = "done" /\ ExitsBase(oArgs.pathname)) => oRes.kind = "err"

\* C5: do_open_relative_to never returns a descriptor for a file outside the
\* base subtree, whatever the pathname (".." segments that would exit the
\* base, absolute pathnames, links).  Under RESOLVE_IN_ROOT a ".." at the
\* base stays at the base, so such a call returns a descriptor inside the
\* base subtree or fails with an ordinary error (ENOENT, ENOTDIR, ELOOP,
\* EINVAL, ENOSYS), never with an escape rejection (EXDEV).
C5_ConfinedToBase ==
    opc = "done" =>
        /\ oRes.kind \in {"ok", "err"}
        /\ oRes.kind = "ok" => InBase(fdNode)
        /\ oRes.kind = "err" =>
              /\ fdNode = NoNode
              /\ oRes.errno \in {"ENOENT", "ENOTDIR", "ELOOP", "EINVAL", "ENOSYS"}

\* A pathname that would exit the base was opened, and the descriptor is
\* the file of that name inside the base.
C5_Witness ==
    /\ opc = "done"
    /\ ExitsBase(oArgs.pathname)
    /\ oRes.kind = "ok"
    /\ fdNode = Child(BaseDir, "f")

\* C14: every openat2 issued by do_open_relative_to carries RESOLVE_IN_ROOT
\* and RESOLVE_NO_MAGICLINKS, and O_NOFOLLOW and O_CLOEXEC in its open flags,
\* whatever flags the caller passed.
C14_FlagsAdded ==
    opc = "done" =>
        /\ oHow.resolve = {"RESOLVE_IN_ROOT", "RESOLVE_NO_MAGICLINKS"}
        /\ {"O_NOFOLLOW", "O_CLOEXEC"} \subseteq oHow.flags

\* =====================================================================
\* Properties of the PID file
\* =====================================================================

\* write_pid_file returned Ok(file) to the process and it still has the file.
Holds(p) == ppc[p] = "held"

\* C6 as stated: at no time do two live processes both hold a PID file they
\* acquired for the same path.
C6_Original ==
    \A p, q \in Procs : (Holds(p) /\ Holds(q)) => p = q

\* C6: at no time do two processes hold the same file (inode) as their PID
\* file, and whoever is past the lock step owns the lock of its file; a
\* caller whose opened file is the one another process holds fails at the
\* lock step with an error and acquires nothing, the holder keeping lock and
\* content.  (Two processes can hold PID files for the same path when the
\* path was removed and created again in between.)
C6_ExclusivePerFile ==
    [][/\ \A p, q \in Procs :
            (Holds(p)' /\ Holds(q)' /\ pfile'[p] = pfile'[q]) => p = q
       /\ \A p \in Procs :
            ppc'[p] \in {"check", "write", "held"} => flocks'[pfile'[p]] = p
       /\ \A p, q \in Procs :
            (/\ p # q
             /\ Holds(p)
             /\ ppc[q] = "lock" /\ pfile[q] = pfile[p]
             /\ ppc'[q] # "lock") =>
                /\ ppc'[q] = "err"
                /\ pres'[q] \in {"EWOULDBLOCK", "ENOLCK"}
                /\ pfile'[q] = NoInode
                /\ Holds(p)'
                /\ flocks' = flocks
                /\ content' = content]_vars

\* The first process holds the file the path names and the second caller
\* has failed on its lock.
C6_Witness ==
    /\ Holds("p1")
    /\ pfile["p1"] = pathIno
    /\ ppc["p2"] = "err"
    /\ pres["p2"] = "EWOULDBLOCK"
    /\ pfile["p2"] = NoInode

\* write_pid_file returns Ok(file) to the process in this step.
Acquires(p) == ppc[p] = "write" /\ ppc'[p] = "held"

\* C13: when write_pid_file returns successfully, the content of the caller's
\* PID file is the caller's decimal process id (and a newline), also when
\* the file held the pid of an earlier holder.
C13_PidContent ==
    [][\A p \in Procs : Acquires(p) => content'[pfile[p]] = PidText(p)]_vars

C15_NoSilentOrphan ==
    [][/\ cpc' # "none" => pidfd' = ForkPids.parent
       /\ cpc' \in {"poll", "running", "failed"} => pdeathsig'
       /\ (cpc = "poll" /\ cpc' \in {"running", "failed"} /\ ~parentAlive) =>
              /\ cpc' = "failed"
              /\ cres' \in {"Parent process died unexpectedly", "poll_err"}
       /\ cpc' = "running" => cres' = "ok"
       /\ cpc' = "failed" => cres' \in {"Parent process died unexpectedly", "poll_err"}
       /\ (cpc' = "running" /\ ~parentAlive') => sigSent']_vars

\* The parent ended between the fork and the child's prctl: no signal was
\* sent and the child's sfork has returned the error.
C15_Witness ==
    /\ ~parentAlive /\ ~sigSent /\ pdeathsig
    /\ cpc = "failed"
    /\ cres = "Parent process died unexpectedly"

\* C16: when waitpid has returned the child's status, wait_for_child ends
\* the process with the child's exit status if the child exited, with the
\* negated signal number if a signal terminated it (core dump or not), and
\* with EXIT_FAILURE for any other status; the status of a child that ended
\* is the one of its ending.  (When waitpid fails the exit code is 1.)
C16_ExitCode ==
    exited.done =>
        /\ spc = "exited" /\ ~parentAlive
        /\ exited.waited =>
              /\ exited.seen.kind \in {"exit", "signal"} =>
                    (cpc = "dead" /\ exited.seen = childEnd)
              /\ exited.seen.kind \in {"exit", "signal", "stop"}
              /\ exited.seen.kind = "exit" => exited.code = exited.seen.val
              /\ exited.seen.kind = "signal" => exited.code = 0 - exited.seen.val
              /\ exited.seen.kind = "stop" => exited.code = EXIT_FAILURE
        /\ ~exited.waited => exited.code = 1

\* The child was killed by a signal with a core dump and the parent has
\* exited with the negated signal number.
C16_Witness ==
    /\ exited.done /\ exited.waited
    /\ cpc = "dead" /\ childEnd.kind = "signal" /\ childEnd.core
    /\ exited.code = 0 - childEnd.val
    /\ exited.code < 0

\* =====================================================================
\* Properties of mount and umount2
\* =====================================================================

HasNul(str) == \E i \in 1..Len(str) : str[i] = "NUL"

NulGiven == \E k \in 1..Len(margs) : HasNul(margs[k])

\* C17 as stated: given a string with an embedded NUL byte, mount and umount2
\* return an error, do not panic and do not issue the syscall.
C17_Original ==
    (mout # "none" /\ NulGiven) => (mout = "err" /\ msys = <<>>)

\* C17: given a string with an embedded NUL byte, mount and umount2 panic
\* (they return nothing) and do not issue the syscall; given strings without
\* one, they issue the syscall once, with the strings NUL-terminated, and
\* return Ok or the syscall's error.
C17_PanicsOnNul ==
    mout # "none" =>
        /\ mout \in {"ok", "err", "panic"}
        /\ NulGiven <=> mout = "panic"
        /\ NulGiven => msys = <<>>
        /\ ~NulGiven =>
              /\ Len(msys) = 1
              /\ msys[1].strs = [k \in 1..Len(margs) |-> Append(margs[k], "NUL")]

\* mount was given a target with an embedded NUL byte.
C17_Witness ==
    /\ mout = "panic"
    /\ Len(margs) = 3 /\ HasNul(margs[2]) /\ ~HasNul(margs[1]) /\ ~HasNul(margs[3])
    /\ msys = <<>>

\* =====================================================================
\* Properties of the umask guard
\* =====================================================================

NoUmaskGuard == \A t \in Threads : umaskGuards[t] = <<>>

\* C21: a ScopedUmask sets the new mask when created and, when dropped,
\* sets the mask that was in effect at its creation; once every guard of
\* every thread has been dropped, in whatever order the threads created and
\* dropped them, the process's mask is the one it had before the first guard.
C21_UmaskRestored ==
    NoUmaskGuard => procUmask = umaskAtStart

=============================================================================
